---- MODULE Spec2Model ----
(***************************************************************************)
(* The user controller of the online video platform: registerUser,         *)
(* loginUser, logoutUser and refreshAccessToken, with the token issuer     *)
(* generateAccessAndRefreshToken, run as concurrent request handlers over  *)
(* one user collection.  A handler is cut into one step per database       *)
(* access (each await on the store); the synchronous code that follows an  *)
(* access belongs to the same step.                                        *)
(***************************************************************************)
EXTENDS Integers, Sequences, FiniteSets, TLC

\* ------------------------------------------------------------- bounds
\* Records the collection may hold.
MaxUsers == 2
\* Token pairs minted in one run.
MaxTokens == 3

\* Request handlers that may be in flight at once.
Procs == {1, 2}

\* ------------------------------------------------------------- values
\* A key that is not in the request (undefined).
Undef == "<undefined>"

Emails == {"a@x", "b@x"}
Passwords == {"pw1", "pw2"}
Usernames == {"alice", "Bob"}

\* String.prototype.toLowerCase on the strings of the model.
ToLowerCase(s) ==
    CASE s = "Bob" -> "bob"
      [] OTHER -> s

\* An absent token: undefined, or a field the record does not have.
NoToken == [typ |-> "none", id |-> 0, n |-> 0]
\* The string "undefined", which is no JSON Web Token.
Malformed == [typ |-> "malformed", id |-> 0, n |-> 0]
\* The n-th refresh token minted, for user id.
RefreshTok(id, n) == [typ |-> "refresh", id |-> id, n |-> n]
\* The n-th access token minted, for user id.
AccessTok(id, n) == [typ |-> "access", id |-> id, n |-> n]

\* No document (null).
NoUser == [username |-> Undef, email |-> Undef]

VARIABLES
    users,    \* the user collection: users[id] is the record with _id = id
    tokens,   \* tokens[n]: the n-th token pair minted and what became of it
    revoked,  \* the tokens (n) that were stored when a logout returned
    req,      \* req[p]: the request handler p runs, and its local variables
    last,     \* the response the last step sent, if it sent one
    supplied, \* supplied[id]: the username the request that created id carried
    loggedOut \* the users whose stored token a logout cleared, no login since

vars == <<users, tokens, revoked, req, last, supplied, loggedOut>>

Ids == 1..Len(users)

\* ------------------------------------------------------------- the store
\* The password hash the creation hook stores for a plain password.
Hash(pw) == <<"hash", pw>>

\* A comparison that accepts every password.
AnyPassword(user, password) == TRUE

\* user.isPasswordCorrect(password).
isPasswordCorrect(user, password) == user.password = Hash(password)

\* The filter {$or: [{username}, {email}]} on one record; an undefined value
\* matches no record, as every record has both fields.
MatchesOr(rec, username, email) ==
    \/ username # Undef /\ rec.username = username
    \/ email # Undef /\ rec.email = email

\* User.findOne({$or: [{username}, {email}]}): the ids it may return.
findOne(username, email) == {i \in Ids : MatchesOr(users[i], username, email)}

\* The unique indexes on username and email reject a record.
DuplicateKey(rec) ==
    \E i \in Ids : users[i].username = rec.username \/ users[i].email = rec.email

\* A query without a projection: the whole record.
SelectAll(rec) == rec

\* .select("-password -refreshToken")
Sanitize(rec) == [username |-> rec.username, email |-> rec.email]

\* A save that writes only while the record still holds what the issuer read
\* (compare-and-swap).
SaveIfUnchanged(store, id, tok, doc) ==
    IF store[id].refreshToken = doc THEN [store EXCEPT ![id].refreshToken = tok]
    ELSE store

\* A save that fills the field only while it is absent.
SaveIfAbsent(store, id, tok, doc) ==
    IF store[id].refreshToken = NoToken THEN [store EXCEPT ![id].refreshToken = tok]
    ELSE store

\* A save whose update has no filter: the token is written on every record.
SaveOnAll(store, id, tok, doc) ==
    [i \in DOMAIN store |-> [store[i] EXCEPT !.refreshToken = tok]]

\* user.refreshToken = refreshToken; user.save(): the modified path is written,
\* whatever the collection holds by then (doc is the token the issuer's copy of
\* the record held when it was read).
SaveRefreshToken(store, id, tok, doc) == [store EXCEPT ![id].refreshToken = tok]

\* ------------------------------------------------------------- requests
NoBody ==
    [fullName |-> Undef, email |-> Undef, password |-> Undef, username |-> Undef,
     avatar |-> Undef, token |-> NoToken, id |-> 0]

\* What the refresh handler learnt about the presented token when it read the
\* record: history the handler itself does not keep.
NoCtx ==
    [fromLogin |-> FALSE, loginCurrent |-> FALSE, used |-> FALSE,
     revoked |-> FALSE, superseded |-> FALSE, afterRefresh |-> FALSE,
     staleRefresh |-> FALSE, oldLogin |-> FALSE, newLogin |-> FALSE]

\* What a register or login request carried, set against the collection when
\* the handler first read it: history the handler itself does not keep.
\*   blank     register: a required field is empty or only whitespace
\*   conflict  register: an ended registration created a record from the
\*             same username or from the same email, the other differing
\*   supplied  login: a username or an email is in the request
\*   matched   login: a record has the username or the email of the request
\*   checked   login: the record the lookup returned, if the request's
\*             password is the one it was created with (0 otherwise)
\*   named     login: "username" if the request carries just the username and
\*             the password an ended registration created a record from,
\*             "email" likewise
NoInfo ==
    [blank |-> FALSE, conflict |-> FALSE, supplied |-> FALSE, matched |-> FALSE,
     checked |-> 0, named |-> "none"]

Idle ==
    [pc |-> "idle", op |-> "none", body |-> NoBody, uid |-> 0, tok |-> 0,
     seen |-> NoToken, doc |-> NoToken, wrote |-> FALSE, ctx |-> NoCtx,
     info |-> NoInfo]

NoResponse ==
    [op |-> "none", status |-> 0, user |-> NoUser, accessToken |-> NoToken,
     refreshToken |-> NoToken, cookieRefresh |-> NoToken, cleared |-> FALSE,
     fault |-> "none", token |-> NoToken, uid |-> 0, tok |-> 0, seen |-> NoToken,
     stored |-> NoToken, wrote |-> FALSE, ctx |-> NoCtx, info |-> NoInfo,
     message |-> Undef]

\* The response to request r (a handler's request and local variables): its
\* status, and what the handler did.
Response(r, status, fault) ==
    [NoResponse EXCEPT !.op = r.op, !.status = status, !.fault = fault,
                       !.token = r.body.token, !.uid = r.uid, !.tok = r.tok,
                       !.seen = r.seen, !.wrote = r.wrote, !.ctx = r.ctx,
                       !.info = r.info,
                       !.stored = IF r.uid \in Ids THEN users[r.uid].refreshToken
                                  ELSE NoToken]

\* A request is taken by the first handler that is free.
Free(p) ==
    /\ last = NoResponse
    /\ req[p].pc = "idle"
    /\ \A q \in Procs : q < p => req[q].pc # "idle"

\* Handler p sends response r and ends.
Finish(p, r) ==
    /\ req' = [req EXCEPT ![p] = Idle]
    /\ last' = r


\* ------------------------------------------------------------- registerUser
\* field?.trim === "": the property trim of a string is a function, that of
\* undefined is undefined; it is compared, not called.
TrimProperty(field) == IF field = Undef THEN Undef ELSE "<function trim>"

\* [fullName, email, password, username].some((field) => field?.trim === "")
SomeFieldEmpty(b) ==
    \E f \in {b.fullName, b.email, b.password, b.username} : TrimProperty(f) = ""

\* What the request carries as files: "ok" an avatar that uploads, "upload" an
\* avatar whose upload yields nothing, "nofiles" no files at all, "nokey" files
\* without an avatar.
Avatars == {"ok", "upload", "nofiles", "nokey"}

\* The record User.create stores.
NewUser(b) ==
    [username |-> ToLowerCase(b.username), email |-> b.email,
     password |-> Hash(b.password), refreshToken |-> NoToken]

\* A register request's fields.
RegisterBody(fn, em, pw, un) ==
    [NoBody EXCEPT !.fullName = fn, !.email = em, !.password = pw, !.username = un]

\* The register requests of the model: two users, for each a request that
\* repeats its username with the other's email, and requests with a full name
\* that is empty or only whitespace.
RegisterBodies ==
    {RegisterBody("Al", "a@x", "pw1", "alice"), RegisterBody("Bo", "b@x", "pw2", "Bob"),
     RegisterBody("Al", "b@x", "pw1", "alice"), RegisterBody("Bo", "a@x", "pw2", "Bob"),
     RegisterBody("", "a@x", "pw1", "alice"), RegisterBody("  ", "b@x", "pw2", "Bob")}

\* A string that is empty once trimmed.
Blank(field) == field \in {"", "  "}

\* The records whose registration has ended: no handler is still between the
\* creation of the record and the response.
Registered == {i \in Ids : \A p \in Procs : ~(req[p].op = "register" /\ req[p].uid = i)}

\* What request b carries, set against the records of the collection.
RegisterInfo(b) ==
    [NoInfo EXCEPT
        !.blank = \E f \in {b.fullName, b.email, b.password, b.username} : Blank(f),
        !.conflict = \E i \in Registered :
                        (supplied[i] = b.username) # (users[i].email = b.email)]

\* Records created or about to be: the handlers past the existence check count.
RoomForUser(p) ==
    Len(users) + Cardinality({q \in Procs \ {p} : req[q].pc = "reg_create"}) < MaxUsers

\* Lines 35-64: validation, the existence query, the avatar and its upload.
RegisterFind(p) ==
    /\ Free(p)
    /\ \E body \in RegisterBodies, av \in Avatars :
        LET b == [body EXCEPT !.avatar = av]
            r == [Idle EXCEPT !.op = "register", !.body = b,
                              !.info = RegisterInfo(b)]
        IN  /\ IF SomeFieldEmpty(b) THEN Finish(p, Response(r, 400, "none"))
               ELSE IF findOne(b.username, b.email) # {}
                    THEN Finish(p, Response(r, 409, "none"))
               ELSE IF b.avatar = "nokey" THEN Finish(p, Response(r, 500, "none"))
               ELSE IF b.avatar # "ok" THEN Finish(p, Response(r, 400, "none"))
               ELSE /\ RoomForUser(p)
                    /\ req' = [req EXCEPT ![p] = [r EXCEPT !.pc = "reg_create"]]
                    /\ last' = NoResponse
    /\ UNCHANGED <<users, tokens, revoked, supplied, loggedOut>>

\* Lines 66-74: User.create.
RegisterCreate(p) ==
    /\ last = NoResponse
    /\ req[p].pc = "reg_create"
    /\ \/ /\ ~DuplicateKey(NewUser(req[p].body))
          /\ users' = Append(users, NewUser(req[p].body))
          /\ supplied' = Append(supplied, req[p].body.username)
          /\ req' = [req EXCEPT ![p].pc = "reg_fetch", ![p].uid = Len(users) + 1,
                                ![p].wrote = TRUE]
          /\ last' = NoResponse
       \/ /\ DuplicateKey(NewUser(req[p].body))
          /\ Finish(p, Response(req[p], 500, "duplicate"))
          /\ UNCHANGED <<users, supplied>>
       \/ /\ Finish(p, Response(req[p], 500, "store"))
          /\ UNCHANGED <<users, supplied>>
    /\ UNCHANGED <<tokens, revoked, loggedOut>>

\* Lines 76-89: the re-fetch without password and refreshToken, and the response.
RegisterFetch(p) ==
    /\ last = NoResponse
    /\ req[p].pc = "reg_fetch"
    /\ \/ Finish(p, [Response(req[p], 201, "none") EXCEPT
                        !.user = Sanitize(users[req[p].uid])])
       \/ Finish(p, Response(req[p], 500, "store"))
    /\ UNCHANGED <<users, tokens, revoked, supplied, loggedOut>>


\* ------------------------------------------------------------- the token issuer
\* Lines 18-20: whatever fails inside the issuer leaves it as ApiError(500).
IssuerError == 500

\* Line 19: the message of the issuer's ApiError.
IssuerMessage == "Something went wrong while generating refresh and access token"

\* A catch block that keeps the status of the error it caught, and answers 500
\* for an error that has none.
Rethrow(status) == IF status = 0 THEN 500 ELSE status

\* Lines 221-226: the refresh handler turns every error thrown in its try block,
\* the issuer's included, into ApiError(401).
RefreshCatch(status) == 401

\* Line 225: error?.message || "Invalid refresh token".
CatchMessage(message) ==
    IF message \notin {Undef, ""} THEN message ELSE "Invalid refresh token"

\* The message of a request whose token issuance failed.
IssuanceMessage(op) ==
    IF op = "refresh" THEN CatchMessage(IssuerMessage) ELSE IssuerMessage

\* The status of a request whose token issuance failed.
IssuanceFailed(op) == IF op = "refresh" THEN RefreshCatch(IssuerError) ELSE IssuerError

\* Token pairs saved or about to be: the handlers inside the issuer count.
RoomForToken(p) ==
    Len(tokens) + Cardinality({q \in Procs \ {p} : req[q].pc \in {"gen_find", "gen_save"}})
        < MaxTokens

\* The tokens (n) that were written to a record: tokens[n] is the n-th written.
Committed == 1..Len(tokens)

\* Lines 10-12: the issuer reads the record and signs the two tokens.  The pair
\* is local to the handler until it is saved, and is numbered then.
GenFind(p) ==
    /\ last = NoResponse
    /\ req[p].pc = "gen_find"
    /\ \/ /\ req' = [req EXCEPT ![p].pc = "gen_save",
                                ![p].doc = users[req[p].uid].refreshToken]
          /\ last' = NoResponse
       \/ \E fault \in {"store", "sign"} :
            Finish(p, [Response(req[p], IssuanceFailed(req[p].op), fault) EXCEPT
                            !.message = IssuanceMessage(req[p].op)])
    /\ UNCHANGED <<users, tokens, revoked, supplied, loggedOut>>

\* The value a destructuring pattern binds to key.
Destructure(obj, key) == IF key \in DOMAIN obj THEN obj[key] ELSE NoToken

\* res.cookie(name, value): the value is sent as String(value).
CookieValue(value) == IF value = NoToken THEN Malformed ELSE value

\* Line 17: what the issuer returns for the n-th pair.
Issued(id, n) == [accessToken |-> AccessTok(id, n), refreshToken |-> RefreshTok(id, n)]

\* Lines 208-220: the refresh handler's response from the issuer's result.
RefreshResponse(r, result) ==
    LET accessToken == Destructure(result, "accessToken")
        newRefreshToken == Destructure(result, "newRefreshToken")
    IN  [Response(r, 200, "none") EXCEPT
            !.accessToken = accessToken, !.refreshToken = newRefreshToken,
            !.cookieRefresh = CookieValue(newRefreshToken)]

\* Lines 14-17: the issuer saves the refresh token; the refresh handler responds
\* with no further access to the store.
GenSave(p) ==
    /\ last = NoResponse
    /\ req[p].pc = "gen_save"
    /\ LET id == req[p].uid
           n == Len(tokens) + 1
           r == [req[p] EXCEPT !.wrote = TRUE, !.tok = n]
           minted == [id |-> id, by |-> req[p].op, from |-> req[p].body.token,
                      status |-> 0, ret |-> NoToken,
                      checked |-> req[p].info.checked]
       IN  \/ /\ users' = SaveRefreshToken(users, id, RefreshTok(id, n), req[p].doc)
              /\ loggedOut' = IF req[p].op = "login" THEN loggedOut \ {id}
                              ELSE loggedOut
              /\ IF req[p].op = "refresh"
                 THEN LET resp == [RefreshResponse(r, Issued(id, n)) EXCEPT
                                      !.stored = users'[id].refreshToken]
                      IN  /\ Finish(p, resp)
                          /\ tokens' = Append(tokens,
                                [minted EXCEPT !.status = 200,
                                               !.ret = resp.refreshToken])
                 ELSE /\ req' = [req EXCEPT ![p] = [r EXCEPT !.pc = "login_fetch"]]
                      /\ last' = NoResponse
                      /\ tokens' = Append(tokens, minted)
           \/ /\ Finish(p, [Response(req[p], IssuanceFailed(req[p].op), "save") EXCEPT
                                !.message = IssuanceMessage(req[p].op)])
              /\ UNCHANGED <<users, tokens, loggedOut>>
    /\ UNCHANGED <<revoked, supplied>>

\* ------------------------------------------------------------- loginUser
\* The usernames a login may name: as registered, and as stored.
LoginUsernames == Usernames \cup {ToLowerCase(u) : u \in Usernames} \cup {Undef}

\* A condition that takes every value, undefined included, for true.
TruthyAlways(str) == TRUE

\* The truth value of a string in a condition: undefined and "" are falsy.
Truthy(str) == str \notin {Undef, ""}

\* What login request b carries, set against the records of the collection;
\* id is the record the lookup returned (0 before the lookup).
LoginInfo(b, id) ==
    LET createdWith(i) == users[i].password = Hash(b.password)
        names(i) == \/ b.username # Undef /\ users[i].username = b.username
                    \/ b.email # Undef /\ users[i].email = b.email
    IN  [NoInfo EXCEPT
            !.supplied = b.username # Undef \/ b.email # Undef,
            !.matched = \E i \in Ids : names(i),
            !.checked = IF id \in Ids /\ names(id) /\ createdWith(id) THEN id ELSE 0,
            !.named =
                IF /\ b.email = Undef
                   /\ \E i \in Registered : supplied[i] = b.username /\ createdWith(i)
                THEN "username"
                ELSE IF /\ b.username = Undef
                        /\ \E i \in Registered : users[i].email = b.email /\ createdWith(i)
                THEN "email"
                ELSE "none"]

\* Lines 102-121: the validation, the lookup and the password check.
LoginFind(p) ==
    /\ Free(p)
    /\ \E un \in LoginUsernames, em \in Emails \cup {Undef}, pw \in Passwords :
        LET b == [NoBody EXCEPT !.username = un, !.email = em, !.password = pw]
            r == [Idle EXCEPT !.op = "login", !.body = b, !.info = LoginInfo(b, 0)]
        IN  IF ~(Truthy(un) \/ Truthy(em))
            THEN Finish(p, [Response(r, 400, "none") EXCEPT
                                !.message = "username or email is required"])
            ELSE \/ /\ findOne(un, em) = {}
                    /\ Finish(p, [Response(r, 404, "none") EXCEPT
                                    !.message = "User does not exist"])
                 \/ \E id \in findOne(un, em) :
                        LET found == [r EXCEPT !.uid = id, !.info = LoginInfo(b, id)]
                        IN  IF ~isPasswordCorrect(users[id], pw)
                            THEN Finish(p, [Response(found, 404, "none") EXCEPT
                                            !.message = "Invalid user credentials"])
                            ELSE /\ RoomForToken(p)
                                 /\ req' = [req EXCEPT ![p] =
                                        [Idle EXCEPT !.op = "login", !.pc = "gen_find",
                                                     !.uid = id, !.info = found.info]]
                                 /\ last' = NoResponse
    /\ UNCHANGED <<users, tokens, revoked, supplied, loggedOut>>

\* Lines 126-149: the re-fetch of the record and the response.
LoginFetch(p) ==
    /\ last = NoResponse
    /\ req[p].pc = "login_fetch"
    /\ LET id == req[p].uid
           n == req[p].tok
       IN  \/ /\ Finish(p, [Response(req[p], 200, "none") EXCEPT
                        !.user = Sanitize(users[id]),
                        !.accessToken = Issued(id, n).accessToken,
                        !.refreshToken = Issued(id, n).refreshToken,
                        !.cookieRefresh = CookieValue(Issued(id, n).refreshToken)])
              /\ tokens' = [tokens EXCEPT ![n].status = 200,
                                          ![n].ret = Issued(id, n).refreshToken]
           \/ /\ Finish(p, Response(req[p], 500, "store"))
              /\ tokens' = [tokens EXCEPT ![n].status = 500]
    /\ UNCHANGED <<users, revoked, supplied, loggedOut>>


\* ------------------------------------------------------------- refreshAccessToken
\* A refresh token signed with the secret whose _id is that of no record.
Orphan == RefreshTok(MaxUsers + 1, 0)

\* What a client may present: nothing, a string that is no token, a token of no
\* record, or a refresh token minted by a request that was answered 200.
PresentTokens ==
    {NoToken, Malformed, Orphan} \cup
        {RefreshTok(tokens[n].id, n) : n \in {m \in Committed : tokens[m].status = 200}}

\* Line 191: jwt.verify accepts the tokens signed with the refresh-token secret.
VerifyOk(t) == t.typ = "refresh"

\* Line 191: the message of the error jwt.verify throws.
JwtError(fault) == IF fault = "expired" THEN "jwt expired" ELSE "jwt malformed"

\* A comparison of the tokens' users only.
TokenMatchesUser(incoming, stored) == incoming.id = stored.id

\* A comparison that lets every verified token through.
TokenMatchesAlways(incoming, stored) == TRUE

\* Line 199: incomingRefreshToken !== user?.refreshToken rejects.
TokenMatches(incoming, stored) == incoming = stored

\* The history of the presented token t when the handler reads the record.
Ctx(t) ==
    LET minted == t.typ = "refresh" /\ t.n \in Committed
        \* t came back from a successful login
        fromLogin == /\ minted
                     /\ tokens[t.n].by = "login"
                     /\ tokens[t.n].status = 200
                     /\ tokens[t.n].ret = t
        loginCurrent == fromLogin /\ users[t.id].refreshToken = t
        \* the other successful logins of the same user
        logins == {m \in Committed : /\ m # t.n
                                     /\ tokens[m].by = "login"
                                     /\ tokens[m].id = t.id
                                     /\ tokens[m].status = 200}
        \* the successful refreshes that returned t as their new refresh token
        returnedBy == {n \in Committed : /\ tokens[n].by = "refresh"
                                         /\ tokens[n].status = 200
                                         /\ t \in {tokens[n].ret,
                                                    CookieValue(tokens[n].ret)}}
    IN  [fromLogin |-> fromLogin,
         loginCurrent |-> loginCurrent,
         used |-> \E m \in Committed : /\ tokens[m].by = "refresh"
                                       /\ tokens[m].from = t
                                       /\ tokens[m].status = 200,
         revoked |-> minted /\ t.n \in revoked,
         superseded |-> /\ minted
                        /\ \E m \in Committed : /\ tokens[m].id = t.id
                                                /\ m > t.n,
         afterRefresh |-> \E n \in returnedBy :
                            users[tokens[n].id].refreshToken
                                = RefreshTok(tokens[n].id, n),
         staleRefresh |-> \E n \in returnedBy :
                            \E m \in Committed : /\ m > n
                                                  /\ tokens[m].by = "refresh"
                                                  /\ tokens[m].id = tokens[n].id
                                                  /\ tokens[m].status = 200,
         oldLogin |-> /\ fromLogin
                      /\ \E m \in logins : m > t.n,
         newLogin |-> /\ loginCurrent
                      /\ \E m \in logins : m < t.n]

\* Lines 184-201: the presented token, its verification, the record and the
\* comparison with the stored token.
RefreshFind(p) ==
    /\ Free(p)
    /\ \E t \in PresentTokens :
        LET r == [Idle EXCEPT !.op = "refresh", !.body = [NoBody EXCEPT !.token = t],
                              !.ctx = Ctx(t)]
        IN  IF t = NoToken
            THEN Finish(p, [Response(r, 401, "none") EXCEPT
                                !.message = "Unauthorized Request!!"])
            ELSE IF ~VerifyOk(t)
            THEN Finish(p, [Response(r, RefreshCatch(0), "verify") EXCEPT
                                !.message = CatchMessage(JwtError("verify"))])
            ELSE \/ Finish(p, [Response(r, RefreshCatch(0), "expired") EXCEPT
                                !.message = CatchMessage(JwtError("expired"))])
                 \/ LET found == [r EXCEPT !.uid = t.id,
                                           !.seen = users[t.id].refreshToken]
                    IN  IF t.id \notin Ids
                        THEN Finish(p, [Response(r, RefreshCatch(401), "none") EXCEPT
                                !.message = CatchMessage("Invalid RefreshToken")])
                        ELSE IF ~TokenMatches(t, users[t.id].refreshToken)
                        THEN Finish(p, [Response(found, RefreshCatch(401), "none") EXCEPT
                                !.message =
                                    CatchMessage("Refresh token is expired or used")])
                        ELSE /\ RoomForToken(p)
                             /\ req' = [req EXCEPT ![p] = [found EXCEPT !.pc = "gen_find"]]
                             /\ last' = NoResponse
    /\ UNCHANGED <<users, tokens, revoked, supplied, loggedOut>>

\* ------------------------------------------------------------- logoutUser
\* The users that hold an access token: those a token pair was returned to.
Authed == {tokens[n].id : n \in {m \in 1..Len(tokens) : tokens[m].status = 200}}

\* Lines 153-163: findByIdAndUpdate(id, {$set: {refreshToken: undefined}}).
\* What the store does with an undefined value is the object mapper's: one that
\* sends it writes null, one that strips undefined keys from an update sends an
\* empty update.  The stores the update may leave:
SetUndefined(store, id) ==
    {[store EXCEPT ![id].refreshToken = NoToken], store}

\* Lines 152-181.
Logout(p) ==
    /\ Free(p)
    /\ \E id \in Authed :
        LET r == [Idle EXCEPT !.op = "logout", !.uid = id,
                              !.body = [NoBody EXCEPT !.id = id]]
        IN  \/ \E store \in SetUndefined(users, id) :
                /\ users' = store
                /\ loggedOut' = IF store[id].refreshToken = NoToken
                                THEN loggedOut \cup {id} ELSE loggedOut
                /\ revoked' = revoked \cup
                        {n \in Committed : users[id].refreshToken = RefreshTok(id, n)}
                /\ Finish(p, [Response(r, 200, "none") EXCEPT
                                !.cleared = TRUE, !.wrote = TRUE,
                                !.seen = users[id].refreshToken,
                                !.stored = store[id].refreshToken])
            \/ /\ Finish(p, Response(r, 500, "store"))
               /\ UNCHANGED <<users, revoked, loggedOut>>
    /\ UNCHANGED <<tokens, supplied>>

\* The response leaves through the transport adapter before the next step.
Deliver ==
    /\ last # NoResponse
    /\ last' = NoResponse
    /\ UNCHANGED <<users, tokens, revoked, req, supplied, loggedOut>>

Init ==
    /\ users = <<>>
    /\ tokens = <<>>
    /\ revoked = {}
    /\ req = [p \in Procs |-> Idle]
    /\ last = NoResponse
    /\ supplied = <<>>
    /\ loggedOut = {}

Step(p) ==
    \/ RegisterFind(p)
    \/ RegisterCreate(p)
    \/ RegisterFetch(p)
    \/ LoginFind(p)
    \/ LoginFetch(p)
    \/ GenFind(p)
    \/ GenSave(p)
    \/ RefreshFind(p)
    \/ Logout(p)

Next ==
    \/ \E p \in Procs : Step(p)
    \/ Deliver

Spec == Init /\ [][Next]_vars

\* ------------------------------------------------------------- properties
\* The tokens (n) written by two refreshes that presented the same token, a
\* before b.
RacePairs ==
    {ab \in Committed \X Committed :
        /\ ab[1] < ab[2]
        /\ tokens[ab[1]].by = "refresh"
        /\ tokens[ab[2]].by = "refresh"
        /\ tokens[ab[1]].from = tokens[ab[2]].from}

\* C1: a refresh answers 200 only if the presented token equals the refresh
\* token stored on the record of the user its claim names; a token that differs
\* from the stored one, or a record without a stored token, is answered 401.
C1_RefreshOnlyStoredToken ==
    last.op = "refresh" =>
        /\ last.status \in {200, 401}
        /\ last.status = 200 =>
              /\ last.token = last.seen
              /\ last.seen # NoToken
              /\ last.uid = last.token.id
        /\ (last.token # last.seen \/ last.seen = NoToken) => last.status = 401

C1_Witness ==
    /\ last.op = "refresh"
    /\ last.status = 200
    /\ last.token = last.seen

\* C2: a successful refresh returns, in the body and in the cookie, a non-empty
\* refresh token equal to the one it stored, with the access token it minted.
C2_RefreshReturnsNewPair ==
    (last.op = "refresh" /\ last.status = 200) =>
        /\ last.refreshToken # NoToken
        /\ last.refreshToken = last.stored
        /\ last.cookieRefresh = last.stored
        /\ last.accessToken = AccessTok(last.uid, last.tok)

\* C3: a refresh that presents the token the preceding successful refresh of a
\* user returned (nothing having replaced what that refresh stored) succeeds,
\* and one that presents the token returned by a refresh since followed by
\* another successful refresh is answered 401.
C3_RefreshChain ==
    (last.op = "refresh" /\ last.fault = "none") =>
        /\ last.ctx.afterRefresh => last.status = 200
        /\ (last.ctx.staleRefresh /\ ~last.ctx.afterRefresh) => last.status = 401

\* C4: the refresh token a successful login returned is accepted by a refresh
\* while it is the stored token, and answered 401 once a refresh that
\* presented it has succeeded.
C4_LoginTokenOnce ==
    last.op = "refresh" =>
        /\ (last.ctx.loginCurrent /\ last.fault = "none") => last.status = 200
        /\ (last.ctx.fromLogin /\ last.ctx.used) => last.status = 401

C4_Witness ==
    /\ last.op = "refresh"
    /\ last.ctx.fromLogin
    /\ last.ctx.used
    /\ last.status = 401

\* C5: a refresh that presents the token that was stored for a user when a
\* logout of that user returned is answered 401.
C5_LogoutRevokes ==
    (last.op = "refresh" /\ last.ctx.revoked) => last.status = 401

\* C6: when a logout answers 200 the record's stored refresh token is absent.
C6_LogoutClears ==
    (last.op = "logout" /\ last.status = 200) => last.stored = NoToken

\* C7: once a user has logged in successfully again, a refresh with the earlier
\* login's token is answered 401, and the latest login's token is accepted
\* while it is the stored one.
C7_LastLoginWins ==
    last.op = "refresh" =>
        /\ last.ctx.oldLogin => last.status = 401
        /\ (last.ctx.newLogin /\ last.fault = "none") => last.status = 200

C7_Witness ==
    /\ last.op = "refresh"
    /\ last.ctx.oldLogin
    /\ last.status = 401

\* C8: a request answered with an error created no record and changed no stored
\* refresh token.
C8_ErrorsLeaveStore ==
    last.status >= 400 => ~last.wrote

\* C9: a request whose token issuance failed, in signing or in saving, is
\* answered 500.
C9_IssuanceFailureIs500 ==
    last.fault \in {"sign", "save"} => last.status = 500

\* C10: of two refreshes that presented the same token and both succeeded, the
\* token written first is not the stored one once the second is written, and a
\* refresh that presents a token written before another of the same user is
\* answered 401.
C10_LastWriterWins ==
    /\ \A ab \in RacePairs :
          users[tokens[ab[1]].id].refreshToken # RefreshTok(tokens[ab[1]].id, ab[1])
    /\ (last.op = "refresh" /\ last.ctx.superseded) => last.status = 401

C10_Witness ==
    /\ last.op = "refresh"
    /\ last.status = 401
    /\ \E ab \in RacePairs :
          /\ last.token = RefreshTok(tokens[ab[1]].id, ab[1])
          /\ users[last.token.id].refreshToken = RefreshTok(last.token.id, ab[2])

\* C11: a registration that repeats the username an earlier registration
\* supplied, with another email, or its email with another username, is
\* answered 409 and creates no record, whatever the case of the username.
C11_DuplicateIsConflict ==
    (last.op = "register" /\ last.info.conflict /\ ~last.info.blank) =>
        /\ last.status = 409
        /\ ~last.wrote

\* C12: a registration in which fullName, email, password or username is empty
\* or only whitespace is answered 400 and creates no record.
C12_BlankFieldRejected ==
    (last.op = "register" /\ last.info.blank) =>
        /\ last.status = 400
        /\ ~last.wrote

\* C13: a login is rejected with 400 when it carries neither username nor
\* email, before any lookup; with 404 (no such user) when no record has the
\* username or the email; with 404 (invalid credentials) when the record found
\* was not created with the password.  The step that rejects mints no token,
\* sets no cookie and leaves every record as it was.
C13_LoginRejections ==
    [][last'.op = "login" =>
        LET rejected == ~last'.info.supplied \/ ~last'.info.matched
                            \/ last'.info.checked = 0
        IN  /\ ~last'.info.supplied =>
                /\ last'.status = 400
                /\ last'.message = "username or email is required"
            /\ (last'.info.supplied /\ ~last'.info.matched) =>
                /\ last'.status = 404
                /\ last'.message = "User does not exist"
            /\ (last'.info.matched /\ last'.info.checked = 0) =>
                /\ last'.status = 404
                /\ last'.message = "Invalid user credentials"
            /\ rejected =>
                /\ users' = users
                /\ tokens' = tokens
                /\ last'.tok = 0
                /\ last'.accessToken = NoToken
                /\ last'.refreshToken = NoToken
                /\ last'.cookieRefresh = NoToken]_vars

C13_Witness ==
    /\ last.op = "login"
    /\ last.info.matched
    /\ last.info.checked = 0
    /\ last.status = 404
    /\ \E i \in Ids : users[i].refreshToken # NoToken

\* C14: a refresh that presents no token, a token whose verification fails
\* (expiry included) or a token whose _id is that of no record is answered 401,
\* a failed verification with the message of the error it threw, and the step
\* that answers leaves every record as it was.
C14_RefreshRejections ==
    [][last'.op = "refresh" =>
        LET absent == last'.token = NoToken
            unverified == last'.fault \in {"verify", "expired"}
            norecord == /\ last'.token.typ = "refresh"
                        /\ last'.token.id \notin Ids
        IN  /\ (absent \/ unverified \/ norecord) =>
                /\ last'.status = 401
                /\ users' = users
                /\ tokens' = tokens
            /\ unverified => last'.message = JwtError(last'.fault)]_vars

C14_Witness ==
    /\ last.op = "refresh"
    /\ last.token = Orphan
    /\ last.fault = "none"
    /\ last.status = 401
    /\ \E i \in Ids : users[i].refreshToken # NoToken

\* C15: the record in the 201 response of a registration, and the user record
\* in the 200 response of a login, have neither the password hash nor the
\* stored refresh token among their fields.
C15_NoSecretsReturned ==
    (last.op \in {"register", "login"} /\ last.status \in {200, 201}) =>
        /\ last.user.username = users[last.uid].username
        /\ DOMAIN last.user \cap {"password", "refreshToken"} = {}

C15_Witness ==
    /\ last.op = "login"
    /\ last.status = 200
    /\ last.user.email = users[last.uid].email
    /\ users[last.uid].refreshToken # NoToken

\* C16: from the moment a logout has cleared a user's stored refresh token
\* until a login of that user saves a new one, the stored token is absent.
C16_LoggedOutStaysOut ==
    \A id \in loggedOut : users[id].refreshToken = NoToken

\* C17: every refresh token a login saved was saved on the record its lookup
\* returned, a record with the request's username or email that was created
\* with the request's password; a stored token that a login saved names the
\* record that holds it.
C17_LoginWritesCheckedRecord ==
    /\ \A n \in Committed :
          tokens[n].by = "login" => tokens[n].checked = tokens[n].id
    /\ \A i \in Ids :
          LET t == users[i].refreshToken
          IN  (t # NoToken /\ tokens[t.n].by = "login") =>
                  /\ t.id = i
                  /\ tokens[t.n].checked = i

C17_Witness ==
    /\ Len(users) = 2
    /\ users[1].password # users[2].password
    /\ \E i \in Ids :
          /\ users[i].refreshToken # NoToken
          /\ tokens[users[i].refreshToken.n].by = "login"
          /\ \A j \in Ids \ {i} : users[j].refreshToken = NoToken

\* C18: a step changes the stored refresh token of a record only if it is the
\* issuer's save of a login or refresh for that record's user, or a logout of
\* that user; no step of a registration changes the stored refresh token of a
\* record.
C18_OthersUnchanged ==
    [][/\ \A i \in Ids :
            users'[i].refreshToken # users[i].refreshToken =>
                \/ \E p \in Procs : /\ req[p].pc = "gen_save"
                                    /\ req[p].op \in {"login", "refresh"}
                                    /\ req'[p] # req[p]
                                    /\ req[p].uid = i
                \/ last'.op = "logout" /\ last'.uid = i
       /\ (\/ last'.op = "register"
           \/ \E p \in Procs : /\ req'[p] # req[p]
                               /\ "register" \in {req[p].op, req'[p].op}) =>
            \A i \in Ids : users'[i].refreshToken = users[i].refreshToken]_vars

C18_Witness ==
    /\ last.op \in {"refresh", "logout"}
    /\ last.status = 200
    /\ last.wrote
    /\ \E j \in Ids \ {last.uid} : users[j].refreshToken # NoToken

\* C19: a login that carries the username a registration supplied, or its
\* email, with that registration's password, and meets no failure of the store
\* or of signing, is answered 200, whatever the case of the username.
C19_LoginAsRegistered ==
    (last.op = "login" /\ last.info.named # "none" /\ last.fault = "none") =>
        last.status = 200

====
